---- MODULE Spec2Model ----
(***************************************************************************)
(* Model of the RealFlight control link:                                   *)
(*   rflib/aircraft/generic_controller.py  RealFlightGenericController     *)
(*   crazyflie_simulator.py                MainWindow (connect, disconnect *)
(*                                         and reset slots)                *)
(*                                                                         *)
(* Every public method of the controller is one action; the HTTP round     *)
(* trips a method makes are drawn inside the action, one outcome per       *)
(* request, so that a method which raises half way keeps the assignments   *)
(* it made before the raise, exactly as the Python code does.              *)
(*                                                                         *)
(* Numbers.  Channel values are the exact rationals of the Python          *)
(* expressions, scaled by Scale = 3990 = lcm(2, 95, 15, 35), so 0.5 is     *)
(* 1995 and 1 is 3990.  The clock counts half milliseconds, so that        *)
(* round(T, 3) is a real rounding; samples of the simulator's aircraft     *)
(* state are in thousandths, so that round(x, 2) is a real rounding.       *)
(***************************************************************************)
EXTENDS Integers, Sequences, FiniteSets, TLC

VARIABLES
    app,              \* which program drives the controller: "script" or "gui"
    channel_values,   \* self.channel_values
    channel_default,  \* self.channel_default
    aliased,          \* channel_values and channel_default are one list object
    telemetry,        \* self.telemetry: the rows of the DataFrame
    start,            \* self.start
    clock,            \* time.time()
    log,              \* the rows of telemetry.log
    injected,         \* simulator side: the UAV controller interface is injected
    buttons,          \* GUI: the six command buttons are enabled
    inWith,           \* script: inside the with-block of the controller
    last,             \* the most recent step: the call, how it ended, what it sent
    prev,             \* the step before it
    intent,           \* the motion intent the most recent step passed (zero if none)
    received,         \* the channel list read from the last request body examined
    callers,          \* the number of threads calling into one controller
    pc,               \* where each of these threads is inside its call
    outstanding       \* the HTTP requests sent and not yet answered

vars == <<app, channel_values, channel_default, aliased, telemetry, start, clock, log,
          injected, buttons, inWith, last, prev, intent, received,
          callers, pc, outstanding>>

\* The variables of the thread-level view of the controller.
threadVars == <<callers, pc, outstanding>>

----------------------------------------------------------------------------
\* Bounds of the model.
MaxClock == 2
MaxLog == 2
MaxV == 2

\* Denominator of the channel values: value v is stored as v * Scale.
Scale == 3990
Half == Scale \div 2

\* A cell of the DataFrame that holds no number.
NaN == -1

\* The aircraft-state reading the simulator reports, in thousandths.
Samples == {15}

----------------------------------------------------------------------------
\* Python's round(): to the nearest multiple of unit, ties to the even one.
RoundHalfEven(n, unit) ==
    LET q == n \div unit
        r == n % unit
    IN  IF 2 * r < unit THEN q
        ELSE IF 2 * r > unit THEN q + 1
        ELSE IF q % 2 = 0 THEN q ELSE q + 1

\* round(T, 3): half milliseconds to milliseconds.
Round3(h) == RoundHalfEven(h, 2)

\* round(x, 2): thousandths to hundredths.
Round2(x) == RoundHalfEven(x, 10)

\* self.channel_default as built by __init__.
NeutralVector == <<Half, Half, Half, Half, 0, 0, 0, Scale, 0, 0, 0, 0>>

\* The vector reset_aircraft assigns.
StartupVector == <<Half, Half, 0, Half, 0, 0, 0, Scale, 0, 0, 0, 0>>

\* The DataFrame __init__ builds: the nine columns and one row (index 0) of NaN.
InitialTelemetry == << [T |-> NaN, S |-> NaN] >>

\* The motion intents a caller passes where whole sequences of calls are
\* explored: hover, 1 m/s down, 3 m/s forward.
Intents ==
    { [vx |-> 0, vy |-> 0, vz |-> 0, yaw |-> 0],
      [vx |-> 0, vy |-> 0, vz |-> -1, yaw |-> 0],
      [vx |-> 3, vy |-> 0, vz |-> 0, yaw |-> 0] }

\* Every motion intent with whole velocities up to MaxV on each axis.
Vel == -MaxV .. MaxV
AllIntents == [vx : Vel, vy : Vel, vz : Vel, yaw : Vel]

\* The intent of a call that takes none: the defaults of the parameters.
NoIntent == [vx |-> 0, vy |-> 0, vz |-> 0, yaw |-> 0]

\* Variants of the arithmetic, used to show that the properties of the
\* conversion depend on it: a yaw without the 0.5 offset, a pitch with the
\* sign of the roll.
YawUnshifted(i) == (i.yaw * Scale) \div 2
PitchInverted(i) == Half - (i.vx * 18 * Scale) \div 95

\* The arithmetic of convert_motion_in_channel_values.
\*   roll     = 0.5 - (vy * 3.6 / 9.5) / 2    = 0.5 - vy * 18/95
\*   pitch    = 0.5 + (vx * 3.6 / 9.5) / 2    = 0.5 + vx * 18/95
\*   throttle = 0.5 + (vz * 3.6 / 13.5) / 2   = 0.5 + vz * 2/15
\*              0.5 + (vz * 3.6 / 7) / 2      = 0.5 + vz * 9/35   if vz < 0
\*   yaw      = 0.5 + yaw / 2
Roll(i) == Half - (i.vy * 18 * Scale) \div 95
Pitch(i) == Half + (i.vx * 18 * Scale) \div 95
\* Variant of the throttle arithmetic without the branch of lines 278-279:
\* the ascend scale is used for every vertical velocity.
ThrottleAscendOnly(i) == Half + (i.vz * 2 * Scale) \div 15

Throttle(i) ==
    IF i.vz < 0 THEN Half + (i.vz * 9 * Scale) \div 35
    ELSE Half + (i.vz * 2 * Scale) \div 15
Yaw(i) == Half + (i.yaw * Scale) \div 2

\* A variant of the assignment of lines 283-296 that leaves the flight-mode
\* entry at 0, used to show that the fixed entries are checked.
ConvertModeZero(i) ==
    <<Roll(i), Pitch(i), Throttle(i), Yaw(i), 0, 0, 0, 0, 0, 0, 0, 0>>

Convert(i) ==
    <<Roll(i), Pitch(i), Throttle(i), Yaw(i), 0, 0, 0, Scale, 0, 0, 0, 0>>

----------------------------------------------------------------------------
\* The environment.  One outcome per HTTP round trip:
\*   res  "ok"       a response arrived (with an aircraft state s for an exchange)
\*        "fail"     requests.post raised (refused, timeout)
\*        "non2xx"   a response with an error status arrived for a control
\*                   request: requests.post returns it like any other (for
\*                   an exchange such a response is a "nostate" one)
\*        "nostate"  a response without the m-aircraftState element
\*        "nofield"  an m-aircraftState element lacking a field
\*   d    the time that passed until update_telemetry reads time.time():
\*        none to speak of, or a millisecond (two units)
\* Time that passes anywhere else is not observed by the call and is the
\* Tick action's.
RoundTrips == {0, 2}
Delays(c) == {d \in RoundTrips : c + d <= MaxClock}

CtlOutcomes == [res : {"ok", "fail", "non2xx"}, d : {0}, s : {0}]

ExOutcomes(c) ==
    [res : {"ok"}, d : Delays(c), s : Samples]
    \cup [res : {"fail", "nostate", "nofield"}, d : {0}, s : {0}]

\* The outcome of a round trip that follows one that raised: the code never
\* makes it, so the environment is not varied there.
Idle == [res |-> "ok", d |-> 0, s |-> 15]

\* The round trips after which the caller's next statement runs.
Returned(o) == o.res \in {"ok", "non2xx"}

AfterCtl(o) == IF Returned(o) THEN CtlOutcomes ELSE {Idle}
AfterEx(o, c) == IF Returned(o) THEN ExOutcomes(c + o.d) ELSE {Idle}

----------------------------------------------------------------------------
\* The controller's methods, as functions of the machine state m:
\*   m.err   the exception in flight ("none" when there is none)
\*   m.reqs  the HTTP requests this call has issued so far

\* `except Empty`: the only exception class the handlers catch.
Caught(e) == e = "Empty"

\* Variant of post_soap_request: a request that raised is sent a second time.
post_soap_request_retry(m, soapaction, items, o) ==
    LET r == [soapaction |-> soapaction, items |-> items, res |-> o.res]
    IN  [m EXCEPT !.clock = @ + o.d,
                  !.reqs = IF o.res = "fail" THEN @ \o <<r, r>> ELSE Append(@, r),
                  !.err = IF o.res = "fail" THEN "ConnectionError" ELSE "none"]

\* requests.post: one request; raises on a transport failure and returns the
\* content of any response, whatever its status.
post_soap_request(m, soapaction, items, o) ==
    [m EXCEPT !.clock = @ + o.d,
              !.reqs = Append(@, [soapaction |-> soapaction, items |-> items,
                                  res |-> o.res]),
              !.err = IF o.res = "fail" THEN "ConnectionError" ELSE "none"]

enable(m, o) ==
    LET m1 == post_soap_request(m, "InjectUAVControllerInterface", <<>>, o)
    IN  IF o.res = "ok" THEN [m1 EXCEPT !.injected = TRUE] ELSE m1

disable(m, o) ==
    LET m1 == post_soap_request(m, "RestoreOriginalControllerDevice", <<>>, o)
    IN  IF o.res = "ok" THEN [m1 EXCEPT !.injected = FALSE] ELSE m1

\* Variant of Rebind: the elements of the list channel_values refers to are
\* overwritten in place, so a list shared with channel_default changes too.
WriteInPlace(m, v) ==
    [m EXCEPT !.channel_values = v,
              !.channel_default = IF m.aliased THEN v ELSE @]

\* self.channel_values = [...]: the attribute is bound to a new list; the list
\* it referred to before is left as it was.
Rebind(m, v) == [m EXCEPT !.channel_values = v, !.aliased = FALSE]

\* Variant of update_telemetry: the row is appended without the idle test.
update_telemetry_always_logs(m, o) ==
    IF o.res = "nostate" THEN [m EXCEPT !.err = "AttributeError"]
    ELSE IF o.res = "nofield" THEN [m EXCEPT !.err = "KeyError"]
    ELSE LET row == [T |-> Round3(m.clock - m.start), S |-> Round2(o.s)]
         IN  [m EXCEPT !.telemetry = <<row>>, !.log = Append(@, row)]

update_telemetry(m, o) ==
    IF o.res = "nostate" THEN [m EXCEPT !.err = "AttributeError"]
    ELSE IF o.res = "nofield" THEN [m EXCEPT !.err = "KeyError"]
    ELSE LET row == [T |-> Round3(m.clock - m.start), S |-> Round2(o.s)]
         IN  [m EXCEPT !.telemetry = <<row>>,
                       !.log = IF m.channel_values # m.channel_default
                               THEN Append(@, row) ELSE @]

\* The text an f-string puts for a channel value: the whole part and the
\* fraction (in units of 1/Scale), as in "0.5" or "1".  Python's str() of a
\* float is the shortest text that reads back as the same float.
Str(x) == [whole |-> x \div Scale, frac |-> x % Scale]

\* The value the reader of the request gets from such a text.
Float(t) == t.whole * Scale + t.frac

\* Variant of the body with the items of pitch and throttle exchanged.
ExchangeBodySwapped(cv) ==
    << [tag |-> "m-selectedChannels", text |-> [whole |-> 4095, frac |-> 0]],
       [tag |-> "item", text |-> Str(cv[1])],
       [tag |-> "item", text |-> Str(cv[3])],
       [tag |-> "item", text |-> Str(cv[2])],
       [tag |-> "item", text |-> Str(cv[4])],
       [tag |-> "item", text |-> Str(cv[5])],
       [tag |-> "item", text |-> Str(cv[6])],
       [tag |-> "item", text |-> Str(cv[7])],
       [tag |-> "item", text |-> Str(cv[8])],
       [tag |-> "item", text |-> Str(cv[9])],
       [tag |-> "item", text |-> Str(cv[10])],
       [tag |-> "item", text |-> Str(cv[11])],
       [tag |-> "item", text |-> Str(cv[12])] >>

\* The elements with text content of the ExchangeData body, in document order.
ExchangeBody(cv) ==
    << [tag |-> "m-selectedChannels", text |-> [whole |-> 4095, frac |-> 0]],
       [tag |-> "item", text |-> Str(cv[1])],
       [tag |-> "item", text |-> Str(cv[2])],
       [tag |-> "item", text |-> Str(cv[3])],
       [tag |-> "item", text |-> Str(cv[4])],
       [tag |-> "item", text |-> Str(cv[5])],
       [tag |-> "item", text |-> Str(cv[6])],
       [tag |-> "item", text |-> Str(cv[7])],
       [tag |-> "item", text |-> Str(cv[8])],
       [tag |-> "item", text |-> Str(cv[9])],
       [tag |-> "item", text |-> Str(cv[10])],
       [tag |-> "item", text |-> Str(cv[11])],
       [tag |-> "item", text |-> Str(cv[12])] >>

\* The channel list a reader of the request finds: the item elements in
\* document order, each read as a number.
IsItem(e) == e.tag = "item"
ChannelList(body) ==
    LET items == SelectSeq(body, IsItem)
    IN  [k \in 1 .. Len(items) |-> Float(items[k].text)]

update_rc_value(m, o) ==
    LET m1 == post_soap_request(m, "ExchangeData", m.channel_values, o)
        m2 == IF m1.err # "none" THEN m1 ELSE update_telemetry(m1, o)
    IN  IF Caught(m2.err) THEN [m2 EXCEPT !.err = "none"] ELSE m2

\* Variant of reset_aircraft: the exchange at its end is left out.
reset_aircraft_no_exchange(m, o1, o2) ==
    LET m1 == post_soap_request(m, "ResetAircraft", <<>>, o1)
    IN  IF m1.err # "none" THEN m1
        ELSE [m1 EXCEPT !.telemetry = <<>>,
                        !.start = m1.clock,
                        !.channel_values = StartupVector]

\* Variant of reset_aircraft: the channel vector is set to channel_default.
reset_aircraft_to_default(m, o1, o2) ==
    LET m1 == post_soap_request(m, "ResetAircraft", <<>>, o1)
    IN  IF m1.err # "none" THEN m1
        ELSE update_rc_value([m1 EXCEPT !.telemetry = <<>>,
                                        !.start = m1.clock,
                                        !.channel_values = m1.channel_default], o2)

\* Variant of reset_aircraft: self.start is not assigned.
reset_aircraft_keeps_start(m, o1, o2) ==
    LET m1 == post_soap_request(m, "ResetAircraft", <<>>, o1)
    IN  IF m1.err # "none" THEN m1
        ELSE update_rc_value([m1 EXCEPT !.telemetry = <<>>,
                                        !.channel_values = StartupVector], o2)

reset_aircraft(m, o1, o2) ==
    LET m1 == post_soap_request(m, "ResetAircraft", <<>>, o1)
    IN  IF m1.err # "none" THEN m1
        ELSE update_rc_value(Rebind([m1 EXCEPT !.telemetry = <<>>,
                                               !.start = m1.clock],
                                    StartupVector), o2)

convert_motion_in_channel_values(m, i, o) ==
    update_rc_value(Rebind(m, Convert(i)), o)

\* __enter__: enable, reset_aircraft, update_rc_value inside try/except Empty.
enter(m, o1, o2, o3, o4) ==
    LET m1 == enable(m, o1)
        m2 == IF m1.err # "none" THEN m1 ELSE reset_aircraft(m1, o2, o3)
        m3 == IF m2.err # "none" THEN m2 ELSE update_rc_value(m2, o4)
    IN  IF Caught(m3.err) THEN [m3 EXCEPT !.err = "none"] ELSE m3

\* __exit__: reset_aircraft, disable inside try/except Empty.
exit(m, o1, o2, o3) ==
    LET m1 == reset_aircraft(m, o1, o2)
        m2 == IF m1.err # "none" THEN m1 ELSE disable(m1, o3)
    IN  IF Caught(m2.err) THEN [m2 EXCEPT !.err = "none"] ELSE m2

\* RealFlightGenericController(...): a fresh controller object.
construct(m) ==
    [m EXCEPT !.channel_default = NeutralVector,
              !.channel_values = NeutralVector,
              !.aliased = TRUE,
              !.telemetry = InitialTelemetry,
              !.start = m.clock]

----------------------------------------------------------------------------
\* The machine state a call starts from, and the state it leaves.
Machine ==
    [channel_values |-> channel_values, channel_default |-> channel_default,
     aliased |-> aliased,
     telemetry |-> telemetry, start |-> start, clock |-> clock, log |-> log,
     injected |-> injected, reqs |-> <<>>, err |-> "none"]

\* What is remembered of the step before the last one.
Summary(c) ==
    IF c.op = "reset" /\ c.err = "none" THEN "reset done" ELSE "other"

CommitWith(m, op, i) ==
    /\ m.clock <= MaxClock
    /\ Len(m.log) <= MaxLog
    /\ channel_values' = m.channel_values
    /\ channel_default' = m.channel_default
    /\ aliased' = m.aliased
    /\ telemetry' = m.telemetry
    /\ start' = m.start
    /\ clock' = m.clock
    /\ log' = m.log
    /\ injected' = m.injected
    /\ last' = [op |-> op, err |-> m.err, reqs |-> m.reqs]
    /\ prev' = Summary(last)
    /\ intent' = i
    /\ received' = received
    /\ app' = app
    /\ UNCHANGED threadVars

Commit(m, op) == CommitWith(m, op, NoIntent)

Init ==
    /\ app \in {"script", "gui"}
    /\ channel_default = NeutralVector
    /\ channel_values = NeutralVector
    /\ aliased = TRUE
    /\ telemetry = InitialTelemetry
    /\ start = 0
    /\ clock = 0
    /\ log = <<>>
    /\ injected = FALSE
    /\ buttons = FALSE
    /\ inWith = FALSE
    /\ last = [op |-> "init", err |-> "none", reqs |-> <<>>]
    /\ prev = "other"
    /\ intent = NoIntent
    /\ received = <<>>
    /\ callers = 0
    /\ pc = <<>>
    /\ outstanding = {}

\* Time passes between two calls.
Tick ==
    /\ clock < MaxClock
    /\ clock' = clock + 1
    /\ last' = [op |-> "tick", err |-> "none", reqs |-> <<>>]
    /\ prev' = Summary(last)
    /\ intent' = NoIntent
    /\ UNCHANGED <<app, channel_values, channel_default, aliased, telemetry, start, log,
                   injected, buttons, inWith, received, threadVars>>

----------------------------------------------------------------------------
\* A script calling the controller's methods (minimal.py and the like).

Enable ==
    /\ app = "script"
    /\ \E o \in CtlOutcomes : Commit(enable(Machine, o), "enable")
    /\ UNCHANGED <<buttons, inWith>>

Disable ==
    /\ app = "script"
    /\ \E o \in CtlOutcomes : Commit(disable(Machine, o), "disable")
    /\ UNCHANGED <<buttons, inWith>>

Reset ==
    /\ app = "script"
    /\ \E o1 \in CtlOutcomes : \E o2 \in AfterEx(o1, clock) :
          Commit(reset_aircraft(Machine, o1, o2), "reset")
    /\ UNCHANGED <<buttons, inWith>>

Exchange ==
    /\ app = "script"
    /\ \E o \in ExOutcomes(clock) : Commit(update_rc_value(Machine, o), "exchange")
    /\ UNCHANGED <<buttons, inWith>>

SetMotion ==
    /\ app = "script"
    /\ \E i \in Intents : \E o \in ExOutcomes(clock) :
          CommitWith(convert_motion_in_channel_values(Machine, i, o), "setMotion", i)
    /\ UNCHANGED <<buttons, inWith>>

\* with RealFlightGenericController(...) as rc: the block is entered when
\* __enter__ returns and is not when it raises.
Enter ==
    /\ app = "script"
    /\ ~inWith
    /\ \E o1 \in CtlOutcomes : \E o2 \in AfterCtl(o1) :
       \E o3 \in AfterEx(o2, clock) : \E o4 \in AfterEx(o3, clock + o3.d) :
          LET m == enter(construct(Machine), o1, o2, o3, o4)
          IN  /\ Commit(m, "connect")
              /\ inWith' = (m.err = "none")
    /\ UNCHANGED buttons

\* Leaving the with-block runs __exit__.
Exit ==
    /\ app = "script"
    /\ inWith
    /\ \E o1 \in CtlOutcomes : \E o2 \in AfterEx(o1, clock) : \E o3 \in AfterCtl(o2) :
          Commit(exit(Machine, o1, o2, o3), "exit")
    /\ inWith' = FALSE
    /\ UNCHANGED buttons

----------------------------------------------------------------------------
\* The GUI (MainWindow).  A slot of a disabled button is never called.

\* slot_connect: a new controller, enable, reset_aircraft, update_rc_value;
\* the six setDisabled(False) calls follow when none of them raised.
slot_connect(m, o1, o2, o3, o4) ==
    LET m1 == enable(construct(m), o1)
        m2 == IF m1.err # "none" THEN m1 ELSE reset_aircraft(m1, o2, o3)
    IN  IF m2.err # "none" THEN m2 ELSE update_rc_value(m2, o4)

SlotConnect ==
    /\ app = "gui"
    /\ \E o1 \in CtlOutcomes : \E o2 \in AfterCtl(o1) :
       \E o3 \in AfterEx(o2, clock) : \E o4 \in AfterEx(o3, clock + o3.d) :
          LET m == slot_connect(Machine, o1, o2, o3, o4)
          IN  /\ Commit(m, "connect")
              /\ buttons' = IF m.err = "none" THEN TRUE ELSE buttons
    /\ UNCHANGED inWith

\* slot_disconnect: rc.disable(); the six setDisabled(True) calls follow when
\* it did not raise.  (Dropping the MotionCommander of an aircraft in flight,
\* which precedes it, touches no controller state.)
slot_disconnect(m, o) == disable(m, o)

SlotDisconnect ==
    /\ app = "gui"
    /\ buttons
    /\ \E o \in CtlOutcomes :
          LET m == slot_disconnect(Machine, o)
          IN  /\ Commit(m, "disconnect")
              /\ buttons' = IF m.err = "none" THEN FALSE ELSE buttons
    /\ UNCHANGED inWith

\* slot_reset: rc.reset_aircraft() and then telemetry.log is truncated.  (The
\* MotionCommander bookkeeping that precedes it touches no controller state.)
slot_reset(m, o1, o2) ==
    LET m1 == reset_aircraft(m, o1, o2)
    IN  IF m1.err # "none" THEN m1 ELSE [m1 EXCEPT !.log = <<>>]

SlotReset ==
    /\ app = "gui"
    /\ buttons
    /\ \E o1 \in CtlOutcomes : \E o2 \in AfterEx(o1, clock) :
          Commit(slot_reset(Machine, o1, o2), "reset")
    /\ UNCHANGED <<buttons, inWith>>

\* MotionCommander.take_off(height, velocity): the aircraft is commanded to
\* climb at the given velocity, through set-motion.
take_off(m, velocity, o) ==
    convert_motion_in_channel_values(
        m, [vx |-> 0, vy |-> 0, vz |-> velocity, yaw |-> 0], o)

\* Variant of slot_takeoff without the assignment to rc.start.
slot_takeoff_keeps_start(m, o) == take_off(m, 1, o)

\* slot_takeoff: rc.start = time.time(), then mc.take_off(height=2, velocity=1).
slot_takeoff(m, o) == take_off([m EXCEPT !.start = m.clock], 1, o)

SlotTakeoff ==
    /\ app = "gui"
    /\ buttons
    /\ \E o \in ExOutcomes(clock) :
          CommitWith(slot_takeoff(Machine, o), "takeoff",
                     [vx |-> 0, vy |-> 0, vz |-> 1, yaw |-> 0])
    /\ UNCHANGED <<buttons, inWith>>

Next ==
    \/ Tick
    \/ Enable
    \/ Disable
    \/ Reset
    \/ Exchange
    \/ SetMotion
    \/ Enter
    \/ Exit
    \/ SlotConnect
    \/ SlotDisconnect
    \/ SlotReset
    \/ SlotTakeoff

Spec == Init /\ [][Next]_vars

\* The script under the guarantee of the with statement: once the block has
\* been entered, __exit__ runs.
SpecWith == Init /\ [][Next]_vars /\ WF_vars(Exit)

----------------------------------------------------------------------------
\* The conversion on its own: one set-motion call on a fresh controller, with
\* any intent of AllIntents and any outcome of its exchange.
InitConvert == Init /\ app = "script"

ConvertCall ==
    /\ last.op = "init"
    /\ \E i \in AllIntents : \E o \in ExOutcomes(clock) :
          CommitWith(convert_motion_in_channel_values(Machine, i, o), "setMotion", i)
    /\ UNCHANGED <<buttons, inWith>>

\* The body of the request that call sent is written as in update_rc_value
\* and its channel list is read back.
ReadBack ==
    /\ last.op = "setMotion"
    /\ received = <<>>
    /\ received' = ChannelList(ExchangeBody(last.reqs[1].items))
    /\ UNCHANGED <<app, channel_values, channel_default, aliased, telemetry, start, clock,
                   log, injected, buttons, inWith, last, prev, intent, threadVars>>

NextConvert == ConvertCall \/ ReadBack

SpecConvert == InitConvert /\ [][NextConvert]_vars

----------------------------------------------------------------------------
\* The soapaction headers of the requests a call issued, in order.
Actions(reqs) == [k \in 1 .. Len(reqs) |-> reqs[k].soapaction]

\* C1: set-motion on a link that is Disconnected returns an invalid-state
\* error and issues no HTTP request.
C1_SetMotionDisconnectedFailsFast ==
    (last.op = "setMotion" /\ ~injected)
        => (last.err = "InvalidStateError" /\ last.reqs = <<>>)

\* C2: a set-motion call that fails (transport error, or a response that
\* cannot be decoded) leaves the channel vector and the current telemetry as
\* they were before the call.
C2_FailedSetMotionChangesNothing ==
    [][(last'.op = "setMotion" /\ last'.err # "none")
          => (channel_values' = channel_values /\ telemetry' = telemetry)]_vars

\* C3: a connect that fails at any step leaves the link Disconnected and the
\* channel vector, the current telemetry and the elapsed-time origin as they
\* were before the connect call, that is as the constructor left them.
C3_FailedConnectLeavesNoPartialState ==
    [][(last'.op = "connect" /\ last'.err # "none")
          => /\ buttons' = buttons
             /\ ~inWith'
             /\ channel_values' = NeutralVector
             /\ telemetry' = InitialTelemetry
             /\ start' = clock]_vars

\* The requests of a connect that ran to its end.
FullConnect ==
    <<"InjectUAVControllerInterface", "ResetAircraft", "ExchangeData", "ExchangeData">>

\* C4: when the takeover request of a connect fails, the error reaches the
\* caller, the link stays as it was (the GUI's command buttons stay disabled,
\* the with-block is not entered), no reset or exchange request is issued,
\* and a later connect can be made and starts again from the takeover
\* request, running the whole sequence when nothing fails.
C4_TakeoverFailure ==
    [][(last'.op = "connect") =>
         /\ (last'.reqs[1].res # "ok") =>
               /\ last'.err # "none"
               /\ Len(last'.reqs) = 1
               /\ buttons' = buttons
               /\ ~inWith'
               /\ injected' = injected
         /\ (last.op = "connect" /\ last.reqs[1].res # "ok") =>
               /\ last'.reqs[1].soapaction = "InjectUAVControllerInterface"
               /\ (last'.err = "none") => (Actions(last'.reqs) = FullConnect)]_vars

\* C5: when the restore request of a disconnect fails, the link is
\* Disconnected locally afterwards (the GUI's command buttons are disabled)
\* and the error reaches the caller.
C5_FailedDisconnectStillDisconnects ==
    (last.op = "disconnect" /\ last.reqs[1].res = "fail")
        => (~buttons /\ last.err # "none")

\* C6: a successful set-motion appends one record to the telemetry log when
\* the vector it sent differs from the neutral vector and none when it equals
\* it, so N calls of which K are non-neutral append exactly K records.
C6_OneRecordPerNonNeutralSetMotion ==
    [][(last'.op = "setMotion" /\ last'.err = "none") =>
          IF last'.reqs[1].items # channel_default
          THEN log' = Append(log, telemetry'[1])
          ELSE log' = log]_vars

\* C6 witness: two records in the log, the second one from a set-motion with
\* a non-neutral vector.
C6_Witness ==
    /\ last.op = "setMotion"
    /\ last.err = "none"
    /\ last.reqs[1].items # NeutralVector
    /\ Len(log) = 2
    /\ log[2] = telemetry[1]

\* C7: a response without the aircraft-state element makes the exchange fail
\* with a decode error, the current telemetry is not replaced by a record and
\* nothing is appended to the log.
C7_MissingStateIsDecodeError ==
    [][(last'.reqs # <<>> /\ last'.reqs[Len(last'.reqs)].res = "nostate")
          => /\ last'.err = "DecodeError"
             /\ telemetry' \in {telemetry, <<>>}
             /\ Len(log') <= Len(log)]_vars

\* C8, as first stated: a successful connect issues one takeover request, one
\* reset request and then exactly one exchange request, carrying the startup
\* vector.
C8_ConnectIssuesOneExchange ==
    (last.op = "connect" /\ last.err = "none")
        => /\ Actions(last.reqs) =
                 <<"InjectUAVControllerInterface", "ResetAircraft", "ExchangeData">>
           /\ last.reqs[3].items = StartupVector

\* C8, amended: a successful connect issues one takeover request, one reset
\* request and then exactly two exchange requests (the one that ends
\* reset_aircraft and the one connect makes itself), both carrying the
\* startup vector.
C8_ConnectIssuesTwoExchanges ==
    (last.op = "connect" /\ last.err = "none")
        => /\ Actions(last.reqs) = FullConnect
           /\ last.reqs[3].items = StartupVector
           /\ last.reqs[4].items = StartupVector

\* C8 witness: a connect that ran to its end.
C8_Witness ==
    /\ last.op = "connect"
    /\ last.err = "none"
    /\ injected

\* C9: a successful reset, whatever the channel vector and the connection
\* state before it, issues one reset request and then exactly one exchange
\* request carrying the startup vector; afterwards the channel vector is the
\* startup vector and the elapsed-time origin is the time of the reset.
C9_ResetRestoresStartup ==
    [][(last'.op = "reset" /\ last'.err = "none") =>
          /\ Actions(last'.reqs) = <<"ResetAircraft", "ExchangeData">>
          /\ last'.reqs[2].items = StartupVector
          /\ channel_values' = StartupVector
          /\ start' = clock]_vars

\* C9 witness: a reset made while Disconnected and after some time passed.
C9_Witness ==
    /\ last.op = "reset"
    /\ last.err = "none"
    /\ ~injected
    /\ start > 0
    /\ channel_values = StartupVector

\* C10: the second of two consecutive successful resets leaves the channel
\* vector, the number of telemetry rows and the connection state as the
\* first left them, and the exchange of a reset reports elapsed time 0 when
\* no time passes between the origin reset and that exchange.
C10_ResetIdempotent ==
    [][(last'.op = "reset" /\ last'.err = "none") =>
          /\ (clock' = clock) => (telemetry'[1].T = 0)
          /\ (last.op = "reset" /\ last.err = "none") =>
                /\ channel_values' = channel_values
                /\ Len(telemetry') = Len(telemetry)
                /\ injected' = injected
                /\ buttons' = buttons
                /\ inWith' = inWith]_vars

\* C10 witness: the second of two consecutive successful resets, made some
\* time after the first.
C10_Witness ==
    /\ prev = "reset done"
    /\ last.op = "reset"
    /\ last.err = "none"
    /\ start > 0
    /\ telemetry[1].T = 0

----------------------------------------------------------------------------
\* The controller called from threads: the methods statement by statement.
\* requests.post sends the request and blocks its thread until the response
\* (or a failure) arrives; nothing in the controller excludes another thread
\* meanwhile.  One or two threads call set-motion and reset on one instance.
MaxCallers == 2

InitThreads ==
    /\ app = "script"
    /\ channel_default = NeutralVector
    /\ channel_values = NeutralVector
    /\ aliased = TRUE
    /\ telemetry = InitialTelemetry
    /\ start = 0
    /\ clock = 0
    /\ log = <<>>
    /\ injected = TRUE
    /\ buttons = FALSE
    /\ inWith = FALSE
    /\ last = [op |-> "init", err |-> "none", reqs |-> <<>>]
    /\ prev = "other"
    /\ intent = NoIntent
    /\ received = <<>>
    /\ callers \in 1 .. MaxCallers
    /\ pc = [t \in 1 .. callers |-> "idle"]
    /\ outstanding = {}

\* Variant of post_end: the call returns while its request is still unanswered.
post_end_early(out, t) == out

\* requests.post, first half: the request of thread t is on the wire.
post_begin(out, t, soapaction) == out \cup {[t |-> t, soapaction |-> soapaction]}

\* requests.post, second half: the response has arrived (or the call raised).
post_end(out, t) == {r \in out : r.t # t}

\* convert_motion_in_channel_values up to its call of update_rc_value.
CallSetMotion(t) ==
    /\ pc[t] = "idle"
    /\ \E i \in Intents :
          LET m == Rebind(Machine, Convert(i))
          IN  /\ channel_values' = m.channel_values
              /\ channel_default' = m.channel_default
              /\ aliased' = m.aliased
    /\ pc' = [pc EXCEPT ![t] = "exchange"]
    /\ UNCHANGED <<app, telemetry, start, clock, log, injected,
                   buttons, inWith, last, prev, intent, received, callers,
                   outstanding>>

\* update_rc_value: the body is built from channel_values and posted.
SendExchange(t) ==
    /\ pc[t] = "exchange"
    /\ outstanding' = post_begin(outstanding, t, "ExchangeData")
    /\ pc' = [pc EXCEPT ![t] = "awaitExchange"]
    /\ UNCHANGED <<app, channel_values, channel_default, aliased, telemetry, start, clock,
                   log, injected, buttons, inWith, last, prev, intent, received,
                   callers>>

\* update_rc_value: the response arrives and update_telemetry runs, or the
\* call raises; either way the call of thread t is over.
RecvExchange(t) ==
    /\ pc[t] = "awaitExchange"
    /\ \E o \in ExOutcomes(clock) :
          LET m0 == [Machine EXCEPT !.clock = @ + o.d]
              m == IF o.res = "fail" THEN m0 ELSE update_telemetry(m0, o)
          IN  /\ Len(m.log) <= MaxLog
              /\ telemetry' = m.telemetry
              /\ log' = m.log
              /\ clock' = m.clock
    /\ outstanding' = post_end(outstanding, t)
    /\ pc' = [pc EXCEPT ![t] = "idle"]
    /\ UNCHANGED <<app, channel_values, channel_default, aliased, start, injected, buttons,
                   inWith, last, prev, intent, received, callers>>

\* reset_aircraft: the ResetAircraft request is posted.
CallReset(t) ==
    /\ pc[t] = "idle"
    /\ outstanding' = post_begin(outstanding, t, "ResetAircraft")
    /\ pc' = [pc EXCEPT ![t] = "awaitReset"]
    /\ UNCHANGED <<app, channel_values, channel_default, aliased, telemetry, start, clock,
                   log, injected, buttons, inWith, last, prev, intent, received,
                   callers>>

\* reset_aircraft: the response arrives; telemetry, start and channel_values
\* are reassigned and update_rc_value is called, or the call raised.
RecvReset(t) ==
    /\ pc[t] = "awaitReset"
    /\ outstanding' = post_end(outstanding, t)
    /\ \E o \in CtlOutcomes :
          IF o.res = "fail"
          THEN /\ pc' = [pc EXCEPT ![t] = "idle"]
               /\ UNCHANGED <<telemetry, start, channel_values, channel_default,
                              aliased>>
          ELSE LET m == Rebind(Machine, StartupVector)
               IN  /\ pc' = [pc EXCEPT ![t] = "exchange"]
                   /\ telemetry' = <<>>
                   /\ start' = clock
                   /\ channel_values' = m.channel_values
                   /\ channel_default' = m.channel_default
                   /\ aliased' = m.aliased
    /\ UNCHANGED <<app, clock, log, injected, buttons, inWith,
                   last, prev, intent, received, callers>>

NextThreads ==
    \/ Tick
    \/ \E t \in 1 .. callers : CallSetMotion(t)
    \/ \E t \in 1 .. callers : SendExchange(t)
    \/ \E t \in 1 .. callers : RecvExchange(t)
    \/ \E t \in 1 .. callers : CallReset(t)
    \/ \E t \in 1 .. callers : RecvReset(t)

SpecThreads == InitThreads /\ [][NextThreads]_vars

----------------------------------------------------------------------------
\* C11: converting the zero intent yields, element by element, the neutral
\* vector channel_default, so the exchange of a zero-intent set-motion
\* carries the neutral vector and appends nothing to the log.
C11_ZeroIntentIsNeutral ==
    (last.op = "setMotion" /\ intent = NoIntent) =>
        /\ \A k \in 1 .. 12 : channel_values[k] = channel_default[k]
        /\ last.reqs[1].items = channel_default
        /\ log = <<>>

\* C11 witness: a zero-intent set-motion whose exchange succeeded and stored
\* its telemetry row.
C11_Witness ==
    /\ last.op = "setMotion"
    /\ intent = NoIntent
    /\ last.err = "none"
    /\ telemetry # InitialTelemetry
    /\ channel_values = NeutralVector

\* C12: the pitch channel of a set-motion is at least 0.5 when the forward
\* velocity is >= 0 and strictly below 0.5 when it is < 0, whatever the other
\* three fields of the intent are.
C12_PitchSign ==
    last.op = "setMotion" =>
        /\ intent.vx >= 0 => channel_values[2] >= Half
        /\ intent.vx < 0 => channel_values[2] < Half
        /\ last.reqs[1].items[2] = channel_values[2]

\* C12 witness: a backward intent with all other fields non-zero, converted
\* to a pitch below 0.5.
C12_Witness ==
    /\ last.op = "setMotion"
    /\ intent.vx < 0
    /\ intent.vy # 0 /\ intent.vz # 0 /\ intent.yaw # 0
    /\ channel_values[2] < Half

\* C13: in every reachable state the channel vector has exactly 12 entries,
\* entries 4-6 and 8-11 (counted from 0) are 0 and entry 7, the flight mode,
\* is 1.
C13_FixedChannels ==
    /\ Len(channel_values) = 12
    /\ \A k \in {5, 6, 7, 9, 10, 11, 12} : channel_values[k] = 0
    /\ channel_values[8] = Scale

\* C13 witness: a connected controller after a set-motion call that moved the
\* pitch channel away from neutral.
C13_Witness ==
    /\ last.op = "setMotion"
    /\ last.err = "none"
    /\ injected
    /\ channel_values[2] # Half
    /\ channel_values[8] = Scale

\* C14: in every reachable state the roll, pitch, throttle and yaw entries
\* of the channel vector, and of every exchange request sent, lie between 0
\* and 1 inclusive, for every intent passed to set-motion.
C14_ChannelsInUnitRange ==
    /\ \A k \in 1 .. 4 : channel_values[k] >= 0 /\ channel_values[k] <= Scale
    /\ \A r \in 1 .. Len(last.reqs) :
          last.reqs[r].soapaction = "ExchangeData" =>
             \A k \in 1 .. 4 : /\ last.reqs[r].items[k] >= 0
                               /\ last.reqs[r].items[k] <= Scale

\* C15: the exchange request built from a channel vector lists exactly 12
\* items, and reading the items back in document order yields the 12 channel
\* values in the same order (item i is channel i).
C15_RequestRoundTrip ==
    /\ Len(SelectSeq(ExchangeBody(channel_values), IsItem)) = 12
    /\ received # <<>> =>
          /\ Len(received) = 12
          /\ \A k \in 1 .. 12 : received[k] = channel_values[k]
          /\ received = Convert(intent)

\* C15 witness: a request read back whose roll, pitch, throttle and yaw items
\* are four different values, pitch above 0.5 and throttle below.
C15_Witness ==
    /\ received # <<>>
    /\ Cardinality({received[k] : k \in 1 .. 4}) = 4
    /\ received[2] > Half
    /\ received[3] < Half
    /\ received[2] = channel_values[2]

\* C16: whenever an HTTP call or the decoding of a response fails inside
\* enable, reset, exchange or disable, called directly or through the
\* context-manager entry and exit (or a GUI slot), the operation ends with an
\* error visible to its caller.
C16_FailuresReachTheCaller ==
    (\E k \in 1 .. Len(last.reqs) : last.reqs[k].res # "ok") => last.err # "none"

\* C17: each call of enable, disable or exchange (a set-motion included)
\* issues exactly one HTTP request; a request that raised is the last one of
\* its operation, no failed request is sent again (no retry) and no takeover
\* request follows another request of the operation (no reconnect).
C17_OneRequestNoRetry ==
    /\ last.op \in {"enable", "disable", "disconnect", "exchange", "setMotion"}
          => Len(last.reqs) = 1
    /\ \A k \in 1 .. Len(last.reqs) :
          /\ ~Returned(last.reqs[k]) => k = Len(last.reqs)
          /\ (last.reqs[k].res # "ok" /\ k < Len(last.reqs))
                => last.reqs[k + 1].soapaction # last.reqs[k].soapaction
          /\ k > 1 => last.reqs[k].soapaction # "InjectUAVControllerInterface"

\* C17 witness: an exchange whose only request raised.
C17_Witness ==
    /\ last.op = "exchange"
    /\ Len(last.reqs) = 1
    /\ last.reqs[1].res = "fail"
    /\ last.err = "ConnectionError"

\* C18: of two successive exchanges with no reset between them, the later
\* one's telemetry timestamp is not below the earlier one's, whatever
\* operation of the application made it, the GUI's take-off included.
C18_TimestampsNonDecreasing ==
    [][(/\ last'.op \in {"exchange", "setMotion", "takeoff"}
        /\ last'.err = "none"
        /\ telemetry # <<>>
        /\ telemetry # InitialTelemetry)
          => telemetry'[1].T >= telemetry[1].T]_vars

\* C19: on one controller instance at most one request is outstanding at
\* any time, and so no two exchanges overlap, with one calling thread and with
\* two threads that call set-motion or reset without an external lock.
C19_OneRequestOutstanding ==
    Cardinality(outstanding) <= 1

\* C19, amended: with a single calling thread at most one request is
\* outstanding at any time, since every operation waits for the response of
\* a request before it sends the next.
C19_OneOutstandingPerSingleCaller ==
    /\ callers = 1 => Cardinality(outstanding) <= 1
    /\ \A t \in 1 .. callers :
          Cardinality({r \in outstanding : r.t = t}) <= 1

\* C19 witness: a single caller inside reset, waiting for the response of the
\* exchange that follows the answered reset request.
C19_Witness ==
    /\ callers = 1
    /\ pc[1] = "awaitExchange"
    /\ channel_values = StartupVector
    /\ telemetry = <<>>
    /\ outstanding = {[t |-> 1, soapaction |-> "ExchangeData"]}

\* C20: connect and reset alone append no record to the telemetry log: every
\* record appended comes from the exchange of a set-motion call (the GUI's
\* take-off makes one) whose converted vector differs from the neutral vector.
C20_OnlySetMotionAppends ==
    [][Len(log') > Len(log)
          => /\ last'.op \in {"setMotion", "takeoff"}
             /\ Convert(intent') # NeutralVector]_vars

\* C21: the throttle channel uses the ascend scale 3.6/13.5 when the
\* vertical velocity is >= 0 and the descend scale 3.6/7 when it is < 0, so
\* throttle >= 0.5 exactly when the vertical velocity is >= 0, and a vertical
\* velocity of 0 gives exactly 0.5.
C21_ThrottleScales ==
    last.op = "setMotion" =>
        /\ intent.vz >= 0 => (channel_values[3] - Half) * 135 = intent.vz * 18 * Scale
        /\ intent.vz < 0 => (channel_values[3] - Half) * 70 = intent.vz * 18 * Scale
        /\ (channel_values[3] >= Half) <=> (intent.vz >= 0)
        /\ intent.vz = 0 => channel_values[3] = Half
        /\ last.reqs[1].items[3] = channel_values[3]

\* C21 witness: a descent converted with the descend scale, the other three
\* fields being non-zero.
C21_Witness ==
    /\ last.op = "setMotion"
    /\ intent.vz = -1
    /\ intent.vx # 0 /\ intent.vy # 0 /\ intent.yaw # 0
    /\ channel_values[3] = Half - (9 * Scale) \div 35

\* C22: in the GUI the command buttons (disconnect, take-off, hover, fly,
\* land, reset) are enabled exactly when the link is Enabled: they become
\* enabled only by a connect whose takeover, reset and exchanges all
\* succeeded, they are disabled again after a disconnect, and while they are
\* enabled the controller interface is injected in the simulator.
C22_ButtonsFollowLink ==
    [][/\ (buttons' /\ ~buttons) =>
             /\ last'.op = "connect"
             /\ Actions(last'.reqs) = FullConnect
             /\ \A k \in 1 .. Len(last'.reqs) : last'.reqs[k].res = "ok"
       /\ last'.op = "disconnect" => ~buttons'
       /\ buttons' => injected']_vars

\* C23: whenever the context-manager exit runs after a successful entry, a
\* restore-original-controller request is eventually issued, also when the
\* reset request or the exchange that precede it in the exit fail; when
\* nothing fails it is the last request of the exit, and the takeover request
\* is the first request of the entry.
RestoreIssued(reqs) ==
    \E k \in 1 .. Len(reqs) : reqs[k].soapaction = "RestoreOriginalControllerDevice"

C23_ExitRestoresController ==
    /\ []((/\ inWith
            /\ last.op = "connect"
            /\ \A k \in 1 .. Len(last.reqs) : last.reqs[k].res = "ok")
              => <>(last.op = "exit" /\ RestoreIssued(last.reqs)))
    /\ []((last.op = "exit" /\ last.err = "none") =>
             last.reqs[Len(last.reqs)].soapaction = "RestoreOriginalControllerDevice")
    /\ []((last.op = "connect" /\ last.reqs # <<>>) =>
             last.reqs[1].soapaction = "InjectUAVControllerInterface")

\* C24: channel_default keeps its construction value
\* [0.5, 0.5, 0.5, 0.5, 0, 0, 0, 1, 0, 0, 0, 0] in every reachable state:
\* the channel vector starts as the same list, but no operation changes the
\* constant, so the idle test always compares against the same vector.
C24_DefaultNeverChanges ==
    /\ channel_default = <<Half, Half, Half, Half, 0, 0, 0, Scale, 0, 0, 0, 0>>
    /\ aliased => channel_values = channel_default

\* C24 witness: a set-motion away from neutral was the first assignment to the
\* channel vector of a controller (it was the shared list before the call),
\* and the constant is still the neutral vector.
C24_Witness ==
    /\ last.op = "setMotion"
    /\ Len(last.reqs) = 1
    /\ channel_values # NeutralVector
    /\ ~aliased
    /\ ~injected
    /\ log # <<>>
    /\ channel_default = NeutralVector

TypeOK ==
    /\ Len(channel_values) = 12
    /\ Len(telemetry) <= 1
    /\ clock >= start

====
